---- MODULE Spec2Model ----
(***************************************************************************)
(* zircon-object/src/signal/port.rs: Port, a mailbox of PortPackets built  *)
(* on the READABLE signal of its KObjectBase.                              *)
(*                                                                         *)
(* Every task is a small program counter over the lines of Port::push and  *)
(* Port::wait_async; one action is one line of the source, so that every   *)
(* interleaving of producers and consumers the spin::Mutex allows is a     *)
(* behaviour of the model.  KObjectBase (signal_set, signal_clear,         *)
(* wait_signal_async) and send_signal_to_port_async live outside port.rs   *)
(* and are modelled from the signal contract of the specification.         *)
(***************************************************************************)
EXTENDS Naturals, Sequences, FiniteSets, Bags, TLC

\* ------------------------------------------------------------------ bounds

\* At most this many push calls are started in one behaviour.
MaxPush == 3

Producers == {"p1", "p2"}
Consumers == {"c1", "c2"}

\* Keys the producers choose from (PortPacket.key is any u64, not unique).
Keys == {1, 2}

\* ------------------------------------------------------------------ data

READABLE == "READABLE"
WRITABLE == "WRITABLE"
OK == "OK"

\* PortPacketPayload
PayloadSignal(s) == <<"Signal", s>>
PayloadUser == <<"User", 0>>

\* PortPacket
PortPacket(k, st, d) == [key |-> k, status |-> st, data |-> d]

UserPackets == {PortPacket(k, OK, PayloadUser) : k \in Keys}

\* The two packets of tests::wait_async.
BridgePacket == PortPacket(1, OK, PayloadSignal({READABLE}))
TestPacket == PortPacket(2, OK, PayloadSignal({WRITABLE}))

\* ----------------------------------------------------------------- state

VARIABLES
    queue,      \* PortInner.queue
    lock,       \* holder of Port.inner (spin::Mutex), or "free"
    signal,     \* signal bits of the port's KObjectBase
    waiters,    \* consumers suspended in wait_signal_async(READABLE)
    ppc,        \* producer -> next line of Port::push ("idle": not in push)
    todo,       \* producer -> packets its current call still has to push
    cpc,        \* consumer -> next line of Port::wait_async ("off": no task)
    quiet,      \* consumer -> its current call began with every push
                \*   completed and no push has started since
    script,     \* producer -> remaining statements of the spawned test task
    objSignal,  \* signal bits of the DummyObject of tests::wait_async
    bindings,   \* one-shot registrations of the object: [mask, key]
    started,    \* number of push calls started
    appended,   \* history: packets in the order they were appended
    returned,   \* history: batches in the order wait_async returned them
    log         \* history of push: empty[p], the queue was empty before p's
                \*   append; inq, the producers whose packet is queued and
                \*   whose signal_set is still to come; last, the latest
                \*   signal_set call of a push

vars == <<queue, lock, signal, waiters, ppc, todo, cpc, quiet, script,
          objSignal, bindings, started, appended, returned, log>>

\* ------------------------------------------------- signal-bearing object

\* signal_set(mask): OR the bits in.
SignalSet(s, mask) == s \cup mask

\* signal_clear(mask): AND the bits out; wakes no one.
SignalClear(s, mask) == s \ mask

\* The waiters signal_set(mask) wakes: those suspended on a bit that the
\* call turns on.
Woken(s, mask, ws) == IF (mask \ s) # {} /\ READABLE \in mask THEN ws ELSE {}

\* wait_signal_async(mask) is satisfied when a bit of mask is set.
Satisfied(s, mask) == (s \cap mask) # {}

\* --------------------------------------------------------------- helpers

AllIdle == \A p \in Producers : ppc[p] = "idle"

OthersIdle(c) == \A d \in Consumers \ {c} : cpc[d] \in {"idle", "off"}

Last(s) == s[Len(s)]

\* Number of packets appended when the previous wait_async returned.
PrevAt(i) == IF i = 1 THEN 0 ELSE returned[i - 1].at

RECURSIVE Concat(_)
Concat(bs) == IF bs = <<>> THEN <<>> ELSE Head(bs).batch \o Concat(Tail(bs))

\* ------------------------------------------------------------ Port::push

\* A task calls port.push(pkt).
PushCall(p) ==
    /\ ppc[p] = "idle"
    /\ script[p] = <<>>
    /\ started < MaxPush
    /\ \E pkt \in UserPackets : todo' = [todo EXCEPT ![p] = <<pkt>>]
    /\ ppc' = [ppc EXCEPT ![p] = "lock"]
    /\ started' = started + 1
    /\ quiet' = [c \in Consumers |-> FALSE]
    /\ UNCHANGED <<log, queue, lock, signal, waiters, cpc, script, objSignal,
                   bindings, appended, returned>>

\* let mut inner = self.inner.lock();
PushLock(p) ==
    /\ ppc[p] = "lock"
    /\ lock = "free"
    /\ lock' = p
    /\ ppc' = [ppc EXCEPT ![p] = "append"]
    /\ UNCHANGED <<log, queue, signal, waiters, todo, cpc, quiet, script,
                   objSignal, bindings, started, appended, returned>>

\* Mutant of PushAppend: the packet is inserted at the head of the queue.
PushAppendFront(p) ==
    /\ ppc[p] = "append"
    /\ lock = p
    /\ queue' = <<Head(todo[p])>> \o queue
    /\ appended' = Append(appended, Head(todo[p]))
    /\ ppc' = [ppc EXCEPT ![p] = "drop"]
    /\ log' = [log EXCEPT !.empty[p] = (queue = <<>>), !.inq = @ \cup {p}]
    /\ UNCHANGED <<lock, signal, waiters, todo, cpc, quiet, script,
                   objSignal, bindings, started, returned>>

\* inner.queue.push(packet);
PushAppend(p) ==
    /\ ppc[p] = "append"
    /\ lock = p
    /\ queue' = Append(queue, Head(todo[p]))
    /\ appended' = Append(appended, Head(todo[p]))
    /\ ppc' = [ppc EXCEPT ![p] = "drop"]
    /\ log' = [log EXCEPT !.empty[p] = (queue = <<>>), !.inq = @ \cup {p}]
    /\ UNCHANGED <<lock, signal, waiters, todo, cpc, quiet, script,
                   objSignal, bindings, started, returned>>

\* Mutant of PushDrop: the guard is kept until push returns.
PushDropKeep(p) ==
    /\ ppc[p] = "drop"
    /\ lock = p
    /\ ppc' = [ppc EXCEPT ![p] = "set"]
    /\ UNCHANGED <<log, queue, lock, signal, waiters, todo, cpc, quiet,
                   script, objSignal, bindings, started, appended, returned>>

\* drop(inner);
PushDrop(p) ==
    /\ ppc[p] = "drop"
    /\ lock = p
    /\ lock' = "free"
    /\ ppc' = [ppc EXCEPT ![p] = "set"]
    /\ UNCHANGED <<log, queue, signal, waiters, todo, cpc, quiet, script,
                   objSignal, bindings, started, appended, returned>>

\* Mutant of PushSignalSet: signal_set(READABLE) only when the queue was
\* empty before the append.
PushSignalSetIfEmpty(p) ==
    /\ ppc[p] = "set"
    /\ LET s == IF log.empty[p] THEN SignalSet(signal, {READABLE}) ELSE signal
           w == IF log.empty[p] THEN Woken(signal, {READABLE}, waiters) ELSE {}
       IN /\ signal' = s
          /\ waiters' = waiters \ w
          /\ cpc' = [c \in Consumers |-> IF c \in w THEN "ready" ELSE cpc[c]]
          /\ log' = [log EXCEPT !.empty[p] = FALSE, !.inq = @ \ {p}]
    /\ todo' = [todo EXCEPT ![p] = Tail(todo[p])]
    /\ ppc' = [ppc EXCEPT ![p] = IF Tail(todo[p]) = <<>> THEN "idle" ELSE "lock"]
    /\ UNCHANGED <<queue, lock, quiet, script, objSignal, bindings, started,
                   appended, returned>>

\* Mutant of PushSignalSet: push returns without signal_set(READABLE).
PushNoSignalSet(p) ==
    /\ ppc[p] = "set"
    /\ todo' = [todo EXCEPT ![p] = Tail(todo[p])]
    /\ ppc' = [ppc EXCEPT ![p] = IF Tail(todo[p]) = <<>> THEN "idle" ELSE "lock"]
    /\ log' = [log EXCEPT !.empty[p] = FALSE, !.inq = @ \ {p}]
    /\ UNCHANGED <<queue, lock, signal, waiters, cpc, quiet, script,
                   objSignal, bindings, started, appended, returned>>

\* self.base.signal_set(Signal::READABLE); and push returns.
PushSignalSet(p) ==
    /\ ppc[p] = "set"
    /\ signal' = SignalSet(signal, {READABLE})
    /\ LET w == Woken(signal, {READABLE}, waiters) IN
        /\ waiters' = waiters \ w
        /\ cpc' = [c \in Consumers |-> IF c \in w THEN "ready" ELSE cpc[c]]
        /\ log' = [log EXCEPT !.empty[p] = FALSE, !.inq = @ \ {p},
                              !.last = [wasEmpty |-> log.empty[p],
                                        changed |-> READABLE \notin signal,
                                        woke |-> w]]
    /\ todo' = [todo EXCEPT ![p] = Tail(todo[p])]
    /\ ppc' = [ppc EXCEPT ![p] = IF Tail(todo[p]) = <<>> THEN "idle" ELSE "lock"]
    /\ UNCHANGED <<queue, lock, quiet, script, objSignal, bindings, started,
                   appended, returned>>

\* ------------------------------------------------------ Port::wait_async

\* Mutant of WaitAsyncCall: READABLE is cleared before the wait instead of
\* after it.
WaitAsyncCallClear(c) ==
    /\ cpc[c] = "idle"
    /\ cpc' = [cpc EXCEPT ![c] = "wait"]
    /\ signal' = SignalClear(signal, {READABLE})
    /\ quiet' = [d \in Consumers |->
                    IF d = c THEN AllIdle /\ OthersIdle(c) ELSE FALSE]
    /\ UNCHANGED <<log, queue, lock, waiters, ppc, todo, script, objSignal,
                   bindings, started, appended, returned>>

\* Mutant of WaitAsyncCall: the queue lock is taken before the wait for
\* READABLE and held across it.
WaitAsyncCallLocked(c) ==
    /\ cpc[c] = "idle"
    /\ lock = "free"
    /\ lock' = c
    /\ cpc' = [cpc EXCEPT ![c] = "wait"]
    /\ quiet' = [d \in Consumers |->
                    IF d = c THEN AllIdle /\ OthersIdle(c) ELSE FALSE]
    /\ UNCHANGED <<log, queue, signal, waiters, ppc, todo, script,
                   objSignal, bindings, started, appended, returned>>

\* A task calls port.wait_async(): the future is created.
WaitAsyncCall(c) ==
    /\ cpc[c] = "idle"
    /\ cpc' = [cpc EXCEPT ![c] = "wait"]
    /\ quiet' = [d \in Consumers |->
                    IF d = c THEN AllIdle /\ OthersIdle(c) ELSE FALSE]
    /\ UNCHANGED <<log, queue, lock, signal, waiters, ppc, todo, script,
                   objSignal, bindings, started, appended, returned>>

\* Mutant of WaitSignalPoll: the task registers and suspends without looking
\* at the current signal.
WaitSignalPollRegister(c) ==
    /\ cpc[c] = "wait"
    /\ cpc' = [cpc EXCEPT ![c] = "suspended"]
    /\ waiters' = waiters \cup {c}
    /\ UNCHANGED <<log, queue, lock, signal, ppc, todo, quiet, script,
                   objSignal, bindings, started, appended, returned>>

\* wait_signal_async(Signal::READABLE).await: resolved at once when the bit
\* is set, else the task registers as a waiter and suspends (one step).
WaitSignalPoll(c) ==
    /\ cpc[c] = "wait"
    /\ IF Satisfied(signal, {READABLE})
         THEN /\ cpc' = [cpc EXCEPT ![c] = "ready"]
              /\ waiters' = waiters
         ELSE /\ cpc' = [cpc EXCEPT ![c] = "suspended"]
              /\ waiters' = waiters \cup {c}
    /\ UNCHANGED <<log, queue, lock, signal, ppc, todo, quiet, script, objSignal,
                   bindings, started, appended, returned>>

\* let mut inner = self.inner.lock();
WaitAsyncLock(c) ==
    /\ cpc[c] = "ready"
    /\ lock = "free"
    /\ lock' = c
    /\ cpc' = [cpc EXCEPT ![c] = "clear"]
    /\ UNCHANGED <<log, queue, signal, waiters, ppc, todo, quiet, script,
                   objSignal, bindings, started, appended, returned>>

\* self.base.signal_clear(Signal::READABLE);
WaitAsyncSignalClear(c) ==
    /\ cpc[c] = "clear"
    /\ lock = c
    /\ signal' = SignalClear(signal, {READABLE})
    /\ cpc' = [cpc EXCEPT ![c] = "take"]
    /\ UNCHANGED <<log, queue, lock, waiters, ppc, todo, quiet, script,
                   objSignal, bindings, started, appended, returned>>

\* Mutant of WaitAsyncTake: only the first packet is taken.
WaitAsyncTakeOne(c) ==
    /\ cpc[c] = "take"
    /\ lock = c
    /\ returned' = Append(returned, [by |-> c, batch |-> SubSeq(queue, 1, 1),
                                     at |-> Len(appended),
                                     quiet |-> quiet[c]])
    /\ queue' = SubSeq(queue, 2, Len(queue))
    /\ lock' = "free"
    /\ cpc' = [cpc EXCEPT ![c] = "idle"]
    /\ quiet' = [quiet EXCEPT ![c] = FALSE]
    /\ log' = [log EXCEPT !.inq = {}]
    /\ UNCHANGED <<signal, waiters, ppc, todo, script, objSignal, bindings,
                   started, appended>>

\* Mutant of WaitAsyncTake: the guard is never dropped.
WaitAsyncTakeHold(c) ==
    /\ cpc[c] = "take"
    /\ lock = c
    /\ returned' = Append(returned, [by |-> c, batch |-> queue,
                                     at |-> Len(appended),
                                     quiet |-> quiet[c]])
    /\ queue' = <<>>
    /\ cpc' = [cpc EXCEPT ![c] = "idle"]
    /\ quiet' = [quiet EXCEPT ![c] = FALSE]
    /\ log' = [log EXCEPT !.inq = {}]
    /\ UNCHANGED <<lock, signal, waiters, ppc, todo, script, objSignal,
                   bindings, started, appended>>

\* Mutant of WaitAsyncTake: the batch is a copy and the queue is left as
\* it was.
WaitAsyncTakeClone(c) ==
    /\ cpc[c] = "take"
    /\ lock = c
    /\ returned' = Append(returned, [by |-> c, batch |-> queue,
                                     at |-> Len(appended),
                                     quiet |-> quiet[c]])
    /\ lock' = "free"
    /\ cpc' = [cpc EXCEPT ![c] = "idle"]
    /\ quiet' = [quiet EXCEPT ![c] = FALSE]
    /\ log' = [log EXCEPT !.inq = {}]
    /\ UNCHANGED <<queue, signal, waiters, ppc, todo, script, objSignal,
                   bindings, started, appended>>

\* core::mem::take(&mut inner.queue); the guard is dropped and the call
\* returns the batch.
WaitAsyncTake(c) ==
    /\ cpc[c] = "take"
    /\ lock = c
    /\ returned' = Append(returned, [by |-> c, batch |-> queue,
                                     at |-> Len(appended),
                                     quiet |-> quiet[c]])
    /\ queue' = <<>>
    /\ lock' = "free"
    /\ cpc' = [cpc EXCEPT ![c] = "idle"]
    /\ quiet' = [quiet EXCEPT ![c] = FALSE]
    /\ log' = [log EXCEPT !.inq = {}]
    /\ UNCHANGED <<signal, waiters, ppc, todo, script, objSignal, bindings,
                   started, appended>>

\* The caller drops the future before the wait on READABLE has resolved.
WaitAsyncDrop(c) ==
    /\ cpc[c] \in {"wait", "suspended"}
    /\ cpc' = [cpc EXCEPT ![c] = "idle"]
    /\ waiters' = waiters \ {c}
    /\ quiet' = [quiet EXCEPT ![c] = FALSE]
    /\ UNCHANGED <<log, queue, lock, signal, ppc, todo, script, objSignal,
                   bindings, started, appended, returned>>

\* ------------------------------------- send_signal_to_port_async, tests

\* The registrations that a transition of the object's signal to s fires.
Fired(bs, old, s) ==
    SelectSeq(bs, LAMBDA b : s # old /\ Satisfied(s, b.mask))

\* Mutant of Kept: a fired registration stays registered.
KeptAll(bs, old, s) == bs

\* The registrations the transition leaves in place: the fired ones are
\* consumed.
Kept(bs, old, s) ==
    SelectSeq(bs, LAMBDA b : ~(s # old /\ Satisfied(s, b.mask)))

\* The packets the fired registrations push: the bound key, status OK and
\* the snapshot of the object's signal.
BridgePackets(bs, s) ==
    [i \in DOMAIN bs |-> PortPacket(bs[i].key, OK, PayloadSignal(s))]

\* object.signal_set(Signal::READABLE): a fired registration is consumed and
\* the calling task pushes its packet to the port.
TestSignalSet(p) ==
    /\ ppc[p] = "idle"
    /\ script[p] # <<>>
    /\ Head(script[p]) = "signal_set"
    /\ LET s == SignalSet(objSignal, {READABLE})
           f == Fired(bindings, objSignal, s)
       IN /\ objSignal' = s
          /\ bindings' = Kept(bindings, objSignal, s)
          /\ todo' = [todo EXCEPT ![p] = BridgePackets(f, s)]
          /\ ppc' = [ppc EXCEPT ![p] = IF f = <<>> THEN "idle" ELSE "lock"]
          /\ started' = started + Len(f)
          /\ quiet' = [c \in Consumers |-> quiet[c] /\ f = <<>>]
    /\ script' = [script EXCEPT ![p] = Tail(script[p])]
    /\ UNCHANGED <<log, queue, lock, signal, waiters, cpc, appended, returned>>

\* async_std::task::sleep(Duration::from_millis(1)).await: the task is
\* rescheduled some time later.
TestSleep(p) ==
    /\ ppc[p] = "idle"
    /\ script[p] # <<>>
    /\ Head(script[p]) = "sleep"
    /\ script' = [script EXCEPT ![p] = Tail(script[p])]
    /\ UNCHANGED <<log, queue, lock, signal, waiters, ppc, todo, cpc, quiet,
                   objSignal, bindings, started, appended, returned>>

\* port.push(PortPacket { key: 2, .. })
TestPush(p) ==
    /\ ppc[p] = "idle"
    /\ script[p] # <<>>
    /\ Head(script[p]) = "push"
    /\ todo' = [todo EXCEPT ![p] = <<TestPacket>>]
    /\ ppc' = [ppc EXCEPT ![p] = "lock"]
    /\ started' = started + 1
    /\ quiet' = [c \in Consumers |-> FALSE]
    /\ script' = [script EXCEPT ![p] = Tail(script[p])]
    /\ UNCHANGED <<log, queue, lock, signal, waiters, cpc, objSignal, bindings,
                   appended, returned>>

\* The test's main task calls port.wait_async() twice.
TestWaitAsyncCall(c) ==
    /\ Len(returned) < 2
    /\ WaitAsyncCall(c)

\* ---------------------------------------------- signals of a bound object

Signals == {READABLE, WRITABLE}

\* target.signal_set(bit) by some task: every registration the transition
\* satisfies is consumed and its packet is pushed to the port by that task.
ObjSignalSet(p) ==
    /\ ppc[p] = "idle"
    /\ script[p] = <<>>
    /\ \E bit \in Signals :
          LET s == SignalSet(objSignal, {bit})
              f == Fired(bindings, objSignal, s)
          IN /\ started + Len(f) <= MaxPush
             /\ objSignal' = s
             /\ bindings' = Kept(bindings, objSignal, s)
             /\ todo' = [todo EXCEPT ![p] = BridgePackets(f, s)]
             /\ ppc' = [ppc EXCEPT ![p] = IF f = <<>> THEN "idle" ELSE "lock"]
             /\ started' = started + Len(f)
             /\ quiet' = [c \in Consumers |-> quiet[c] /\ f = <<>>]
    /\ UNCHANGED <<log, queue, lock, signal, waiters, cpc, script, appended,
                   returned>>

\* target.signal_clear(bit) by some task: no registration fires.
ObjSignalClear(p) ==
    /\ ppc[p] = "idle"
    /\ script[p] = <<>>
    /\ \E bit \in Signals : objSignal' = SignalClear(objSignal, {bit})
    /\ UNCHANGED <<log, queue, lock, signal, waiters, ppc, todo, cpc, quiet,
                   script, bindings, started, appended, returned>>

\* -------------------------------------------------------- specifications

Base ==
    /\ queue = <<>>
    /\ lock = "free"
    /\ signal = {}
    /\ waiters = {}
    /\ ppc = [p \in Producers |-> "idle"]
    /\ todo = [p \in Producers |-> <<>>]
    /\ quiet = [c \in Consumers |-> FALSE]
    /\ script = [p \in Producers |-> <<>>]
    /\ objSignal = {}
    /\ bindings = <<>>
    /\ started = 0
    /\ appended = <<>>
    /\ returned = <<>>
    /\ log = [empty |-> [p \in Producers |-> FALSE], inq |-> {},
              last |-> [wasEmpty |-> FALSE, changed |-> FALSE, woke |-> {}]]

\* Port::new(), any number of producers, one consumer.
Init ==
    /\ Base
    /\ cpc = [c \in Consumers |-> IF c = "c1" THEN "idle" ELSE "off"]

PushStep(p) ==
    \/ PushLock(p)
    \/ PushAppend(p)
    \/ PushDrop(p)
    \/ PushSignalSet(p)

WaitAsyncStep(c) ==
    \/ WaitSignalPoll(c)
    \/ WaitAsyncLock(c)
    \/ WaitAsyncSignalClear(c)
    \/ WaitAsyncTake(c)

Next ==
    \/ \E p \in Producers : PushCall(p) \/ PushStep(p)
    \/ \E c \in Consumers : WaitAsyncCall(c) \/ WaitAsyncStep(c) \/ WaitAsyncDrop(c)

Spec == Init /\ [][Next]_vars

\* Two tasks call wait_async on the same port.
InitMulti ==
    /\ Base
    /\ cpc = [c \in Consumers |-> "idle"]

SpecMulti == InitMulti /\ [][Next]_vars

\* Consumers that never abandon a call, under the executor's fairness: a
\* task that can take a step of push or wait_async eventually takes it.
NextLive ==
    \/ \E p \in Producers : PushCall(p) \/ PushStep(p)
    \/ \E c \in Consumers : WaitAsyncCall(c) \/ WaitAsyncStep(c)

Fairness ==
    /\ \A p \in Producers : WF_vars(PushStep(p))
    /\ \A c \in Consumers : WF_vars(WaitAsyncCall(c) \/ WaitAsyncStep(c))

SpecFair == Init /\ [][NextLive]_vars /\ Fairness

\* A port with two one-shot bindings of one object: key 1 on READABLE and
\* key 2 on READABLE | WRITABLE.
BoundAtInit ==
    <<[mask |-> {READABLE}, key |-> 1],
      [mask |-> {READABLE, WRITABLE}, key |-> 2]>>

InitBridge ==
    /\ queue = <<>>
    /\ lock = "free"
    /\ signal = {}
    /\ waiters = {}
    /\ ppc = [p \in Producers |-> "idle"]
    /\ todo = [p \in Producers |-> <<>>]
    /\ cpc = [c \in Consumers |-> IF c = "c1" THEN "idle" ELSE "off"]
    /\ quiet = [c \in Consumers |-> FALSE]
    /\ script = [p \in Producers |-> <<>>]
    /\ objSignal = {}
    /\ bindings = BoundAtInit
    /\ started = 0
    /\ appended = <<>>
    /\ returned = <<>>
    /\ log = [empty |-> [p \in Producers |-> FALSE], inq |-> {},
              last |-> [wasEmpty |-> FALSE, changed |-> FALSE, woke |-> {}]]

NextBridge ==
    \/ \E p \in Producers : ObjSignalSet(p) \/ ObjSignalClear(p) \/ PushStep(p)
    \/ \E c \in Consumers : WaitAsyncCall(c) \/ WaitAsyncStep(c)

SpecBridge == InitBridge /\ [][NextBridge]_vars

\* tests::wait_async: the binding (READABLE, key 1) is registered, the
\* spawned task sets the object's signal, sleeps and pushes, the main task
\* calls wait_async twice.
InitTest ==
    /\ queue = <<>>
    /\ lock = "free"
    /\ signal = {}
    /\ waiters = {}
    /\ ppc = [p \in Producers |-> "idle"]
    /\ todo = [p \in Producers |-> <<>>]
    /\ cpc = [c \in Consumers |-> IF c = "c1" THEN "idle" ELSE "off"]
    /\ quiet = [c \in Consumers |-> FALSE]
    /\ script = [p \in Producers |->
                    IF p = "p1" THEN <<"signal_set", "sleep", "push">> ELSE <<>>]
    /\ objSignal = {}
    /\ bindings = <<[mask |-> {READABLE}, key |-> 1]>>
    /\ started = 0
    /\ appended = <<>>
    /\ returned = <<>>
    /\ log = [empty |-> [p \in Producers |-> FALSE], inq |-> {},
              last |-> [wasEmpty |-> FALSE, changed |-> FALSE, woke |-> {}]]

NextTest ==
    \/ \E p \in Producers :
          TestSignalSet(p) \/ TestSleep(p) \/ TestPush(p) \/ PushStep(p)
    \/ \E c \in Consumers : TestWaitAsyncCall(c) \/ WaitAsyncStep(c)

SpecTest == InitTest /\ [][NextTest]_vars

\* ---------------------------------------------------------------- claims

Range(s) == {s[i] : i \in DOMAIN s}

BagOfSeq(s) == [x \in Range(s) |-> Cardinality({i \in DOMAIN s : s[i] = x})]

Batches == [i \in DOMAIN returned |-> returned[i].batch]

\* C1: every completed wait_async call returns a sequence of length >= 1,
\* for any interleaving of the producers' steps with the consumer's.
NeverReturnsEmptyBatch ==
    \A i \in DOMAIN returned : Len(returned[i].batch) >= 1

\* C2: whenever the queue lock is not held, the READABLE bit is set if and
\* only if the queue is non-empty.
ReadableIffNonEmpty ==
    lock = "free" => (READABLE \in signal <=> queue # <<>>)

\* C3: the packets of all returned batches together with the packets still
\* queued are, as a multiset, exactly the packets appended so far: nothing
\* is delivered twice and nothing appended is lost.
ExactlyOnce ==
    BagOfSeq(Concat(returned)) (+) BagOfSeq(queue) = BagOfSeq(appended)

\* C3 witness: two producers have appended three packets, the consumer has
\* returned two non-empty batches and a packet is still queued.
ExactlyOnceWitness ==
    /\ Len(appended) = 3
    /\ Len(returned) = 2
    /\ \A i \in DOMAIN returned : returned[i].batch # <<>>
    /\ queue # <<>>
    /\ \E p \in Producers : ppc[p] = "set"

\* C5: a wait_async call that begins when every push has completed, and
\* during which no push starts, returns exactly the packets appended since
\* the previous return, in append order, and does not suspend while packets
\* are queued; the call that follows such a call with no push in between
\* does not get past the wait on READABLE.
SequentialDrain ==
    /\ \A i \in DOMAIN returned :
          returned[i].quiet =>
              returned[i].batch = SubSeq(appended, PrevAt(i) + 1, returned[i].at)
    /\ \A c \in Consumers :
          quiet[c] /\ cpc[c] = "suspended" => queue = <<>>
    /\ \A c \in Consumers :
          (/\ quiet[c]
           /\ returned # <<>>
           /\ Last(returned).quiet
           /\ Last(returned).at = Len(appended))
              => cpc[c] \in {"wait", "suspended"}

\* C5 witness: three pushes completed with no wait_async in between, one
\* call returned the three packets in order, and the next call is suspended.
SequentialDrainWitness ==
    /\ Len(returned) = 1
    /\ returned[1].quiet
    /\ Len(returned[1].batch) = 3
    /\ returned[1].batch[1].key # returned[1].batch[2].key
    /\ quiet["c1"]
    /\ cpc["c1"] = "suspended"

\* The atomic mailbox: an append, or a take-all of a non-empty queue that
\* returns the queue's contents.
MailboxStep ==
    \/ /\ \E pkt \in UserPackets : queue' = Append(queue, pkt)
       /\ Batches' = Batches
    \/ /\ queue # <<>>
       /\ queue' = <<>>
       /\ Batches' = Append(Batches, queue)

\* C6: every execution of push and wait_async is a serial execution of the
\* atomic mailbox: each step that changes the queue or the returned batches
\* is an atomic append or an atomic take-all of the packets appended before
\* it and not yet drained.
LinearizableMailbox == [][MailboxStep]_<<queue, Batches>>

\* C7: after a wait_async call has returned and until the next append, the
\* READABLE bit is clear and the queue is empty.
ClearAfterDrain ==
    (returned # <<>> /\ Last(returned).at = Len(appended))
        => (READABLE \notin signal /\ queue = <<>>)

\* C9: a step of a wait_async call whose wait on READABLE has not resolved,
\* its abandonment included, changes neither the queue nor the READABLE bit
\* nor the lock, consumes no packet, and abandonment leaves no registration.
CancellationSafe ==
    [][\A c \in Consumers :
          (/\ cpc[c] \in {"idle", "wait", "suspended"}
           /\ cpc'[c] \in {"idle", "wait", "suspended"}
           /\ cpc'[c] # cpc[c])
              => /\ UNCHANGED <<log, queue, signal, lock, returned, appended>>
                 /\ (cpc'[c] = "idle" => c \notin waiters')]_vars

\* C9 witness: a call was abandoned while suspended with packets appended
\* but READABLE not yet set, and the packets are still queued.
CancellationSafeWitness ==
    /\ cpc["c1"] = "idle"
    /\ returned = <<>>
    /\ Len(queue) = 2
    /\ READABLE \notin signal
    /\ waiters = {}
    /\ \E p \in Producers : ppc[p] = "set"

\* C4: a wait_async call that is pending while a push is in progress
\* eventually returns, and every appended packet is eventually returned.
NoLostWakeup ==
    /\ \A c \in Consumers :
          (cpc[c] \in {"wait", "suspended"} /\ ~AllIdle) ~> (cpc[c] = "idle")
    /\ \A n \in 1..MaxPush :
          (Len(appended) >= n) ~> (Len(Concat(returned)) >= n)

\* C4 witness: a call during which a push started has returned packets, and
\* every packet pushed has been returned.
NoLostWakeupWitness ==
    /\ \E i \in DOMAIN returned :
          ~returned[i].quiet /\ returned[i].batch # <<>>
    /\ Len(Concat(returned)) = MaxPush

\* C8: in tests::wait_async the first call returns exactly the key-1 packet
\* of the binding and the second call exactly the key-2 packet.
TestBatches ==
    /\ Len(returned) >= 1 => returned[1].batch = <<BridgePacket>>
    /\ Len(returned) >= 2 => returned[2].batch = <<TestPacket>>

\* C10: with several consumers every packet is returned exactly once, and a
\* consumer that returns after another consumer has drained the port never
\* returns an empty batch.
MultiConsumerDelivery ==
    /\ BagOfSeq(Concat(returned)) (+) BagOfSeq(queue) = BagOfSeq(appended)
    /\ \A i \in DOMAIN returned :
          (\E j \in 1..(i - 1) : returned[j].by # returned[i].by)
              => returned[i].batch # <<>>

\* The packets a producer's current call has still to append.
Pending(p) == IF ppc[p] \in {"drop", "set"} THEN Tail(todo[p]) ELSE todo[p]

\* The packets of a binding with key k that were handed to the port.
IsBridged(pkt, k) == pkt.key = k /\ pkt.data[1] = "Signal"

Bridged(k) ==
    Cardinality({j \in DOMAIN appended : IsBridged(appended[j], k)})
    + Cardinality({<<p, j>> \in Producers \X (1..MaxPush) :
                      j \in DOMAIN Pending(p) /\ IsBridged(Pending(p)[j], k)})

\* C11: a binding stays registered exactly as long as the object's signal
\* has not satisfied its mask; once it has, the binding is consumed and
\* exactly one packet {key, OK, Signal(snapshot)} has been handed to the
\* port for it, whatever signal_set and signal_clear calls follow.
OneShotBridge ==
    \A i \in DOMAIN BoundAtInit :
        LET b == BoundAtInit[i] IN
        /\ Bridged(b.key) <= 1
        /\ (b \in Range(bindings)) <=> (Bridged(b.key) = 0)
        /\ (b \in Range(bindings)) => ~Satisfied(objSignal, b.mask)
        /\ \A j \in DOMAIN appended :
              IsBridged(appended[j], b.key) =>
                  /\ appended[j].status = OK
                  /\ Satisfied(appended[j].data[2], b.mask)

\* C11 witness: both bindings fired (key 2 on WRITABLE, then key 1 on
\* READABLE), both packets were appended, and both bits were cleared again.
OneShotBridgeWitness ==
    /\ bindings = <<>>
    /\ objSignal = {}
    /\ AllIdle
    /\ \E j \in DOMAIN appended :
          appended[j] = PortPacket(1, OK, PayloadSignal({READABLE, WRITABLE}))
    /\ \E j \in DOMAIN appended :
          appended[j] = PortPacket(2, OK, PayloadSignal({WRITABLE}))

\* The step is producer p's signal_set(READABLE).
IsSignalSet(p) == ppc[p] = "set" /\ ppc'[p] # "set"

AppendSetAtomic ==
    /\ \A p \in log.inq : lock = p
    /\ \A p \in Producers, c \in Consumers :
          ppc[p] \in {"drop", "set"} => cpc[c] \notin {"clear", "take"}

\* C14: push calls signal_set(READABLE) without holding the queue lock, so
\* no waiter is woken by a lock holder; the only step of a lock holder that
\* changes the signal is wait_async's signal_clear, which wakes no one.
WakeOutsideLock ==
    [][/\ \A p \in Producers :
             /\ IsSignalSet(p) => lock # p
             /\ (lock = p /\ ppc'[p] # ppc[p]) => signal' = signal
       /\ \A c \in Consumers :
             /\ (cpc[c] = "suspended" /\ cpc'[c] = "ready") =>
                    \E p \in Producers : IsSignalSet(p) /\ lock # p
             /\ (lock = c /\ cpc'[c] # cpc[c]) =>
                    /\ signal' \subseteq signal
                    /\ waiters' = waiters
                    /\ \A d \in Consumers :
                          cpc[d] = "suspended" => cpc'[d] = "suspended"]_vars

\* C14 witness: a signal_set of push woke the suspended consumer, which now
\* holds the queue lock.
WakeOutsideLockWitness ==
    /\ log.last.woke = {"c1"}
    /\ cpc["c1"] = "clear"
    /\ lock = "c1"

\* C15: signal_clear and the take run in one critical section of the queue
\* lock: no append happens between them, the returned batch is the queue as
\* it was when READABLE was cleared, and the queue is empty when the lock
\* is released.
DrainAtomic ==
    /\ [](/\ \A c \in Consumers : cpc[c] \in {"clear", "take"} => lock = c
          /\ \A p \in Producers : ppc[p] \in {"append", "drop"} => lock = p)
    /\ [][\A c \in Consumers :
             /\ (cpc[c] \in {"clear", "take"} /\ cpc'[c] \in {"clear", "take"})
                    => queue' = queue
             /\ (cpc[c] = "clear" /\ cpc'[c] = "take") => READABLE \notin signal'
             /\ (cpc[c] = "take" /\ cpc'[c] # "take") =>
                    /\ returned' = Append(returned, Last(returned'))
                    /\ Last(returned').batch = queue
                    /\ queue' = <<>>
                    /\ lock = c /\ lock' = "free"]_vars

\* C15 witness: the consumer has cleared READABLE and is about to take two
\* packets while a push waits for the queue lock.
DrainAtomicWitness ==
    /\ cpc["c1"] = "take"
    /\ Len(queue) = 2
    /\ READABLE \notin signal
    /\ \E p \in Producers : ppc[p] = "lock"

\* C17: a call that finds READABLE set does not suspend: until it polls
\* the bit stays set, the poll resolves the wait without registering, no
\* task is ever suspended while the bit is set, and the call goes on to
\* take the queue lock.
ReadableNoSuspend ==
    /\ [](\A c \in Consumers :
             cpc[c] = "suspended" => (READABLE \notin signal /\ c \in waiters))
    /\ [][\A c \in Consumers :
             (cpc[c] = "wait" /\ READABLE \in signal) =>
                 /\ cpc'[c] \in {"wait", "ready"}
                 /\ cpc'[c] = "wait" => READABLE \in signal'
                 /\ cpc'[c] = "ready" => waiters' = waiters]_vars
    /\ \A c \in Consumers :
          (cpc[c] = "wait" /\ READABLE \in signal) ~> (cpc[c] = "clear")

\* C17 witness: a call that began after every push had completed, with
\* READABLE set, has resolved its wait with no signal_set having woken it.
ReadableNoSuspendWitness ==
    /\ cpc["c1"] = "ready"
    /\ quiet["c1"]
    /\ queue # <<>>
    /\ READABLE \in signal
    /\ log.last.woke = {}

\* Number of queued packets whose push has performed its signal_set.
Signalled == Len(queue) - Cardinality(log.inq)

\* The original statement of C18: in every reachable state, a queued packet
\* whose push has performed its signal_set implies READABLE.
NoStrandedPacketAnywhere ==
    Signalled > 0 => READABLE \in signal

\* C18: in every reachable state in which no drain is between its
\* signal_clear and its take, a queued packet whose push has performed its
\* signal_set implies READABLE.
NoStrandedPacket ==
    (Signalled > 0 /\ \A c \in Consumers : cpc[c] # "take")
        => READABLE \in signal

\* C18 witness: with two consumers, one packet is queued and signalled,
\* another is queued with its signal_set still to come, and READABLE is set.
NoStrandedPacketWitness ==
    /\ Len(queue) = 2
    /\ Cardinality(log.inq) = 1
    /\ READABLE \in signal
    /\ cpc["c1"] = "ready"
    /\ cpc["c2"] = "ready"

\* C16: every push that has been invoked completes, also while every
\* consumer is suspended: push waits only for the queue lock, which is
\* never held across a suspension.
PushCompletes ==
    /\ [](\A c \in Consumers :
             cpc[c] \in {"wait", "suspended", "ready"} => lock # c)
    /\ \A p \in Producers : (ppc[p] # "idle") ~> (ppc[p] = "idle")

\* C16 witness: every consumer of the port is suspended in wait_async while
\* both producers are inside push, one of them waiting for the queue lock.
PushCompletesWitness ==
    /\ cpc["c1"] = "suspended"
    /\ \A c \in Consumers : cpc[c] \in {"suspended", "off"}
    /\ ppc["p1"] = "lock"
    /\ ppc["p2"] \in {"append", "drop"}

\* C19: the queue lock is held only inside the straight-line sections of
\* push (append, drop) and wait_async (clear, take), never by a suspended
\* or waiting consumer; its holder can always take its next step; while a
\* push is pending some task can step; and a producer waiting for the lock
\* gets it.
DeadlockFree ==
    /\ [](/\ \A c \in Consumers : (lock = c) <=> (cpc[c] \in {"clear", "take"})
          /\ \A p \in Producers : (lock = p) <=> (ppc[p] \in {"append", "drop"})
          /\ \A p \in Producers : lock = p => ENABLED PushStep(p)
          /\ \A c \in Consumers : lock = c => ENABLED WaitAsyncStep(c)
          /\ (\E p \in Producers : ppc[p] # "idle") =>
                 \/ \E q \in Producers : ENABLED PushStep(q)
                 \/ \E c \in Consumers : lock = c /\ ENABLED WaitAsyncStep(c))
    /\ \A p \in Producers : (ppc[p] = "lock") ~> (ppc[p] = "append")

\* C19 witness: both producers wait for the queue lock while the drain of
\* wait_async holds it.
DeadlockFreeWitness ==
    /\ lock = "c1"
    /\ \A p \in Producers : ppc[p] = "lock"

====
